---- MODULE Spec2Model ----
(***************************************************************************)
(* Household access-control model of the freezer backend: the persisted    *)
(* tables (households, household_members, locations, items), the request   *)
(* handlers of routes/households.py, routes/locations.py, routes/items.py  *)
(* and the crud.py / middleware/auth.py functions they call.               *)
(*                                                                         *)
(* Location rows carry name, location_type and household_id; item rows     *)
(* carry location_id, added_by_user_id and quantity.  The other columns    *)
(* (icon, color, description, dates) are written by the same assignments   *)
(* and read by no guard, so they are not represented.                      *)
(***************************************************************************)
EXTENDS Integers, FiniteSets, Sequences, TLC

\* ---------------------------------------------------------------- bounds
\* requests handled in one behaviour; it bounds the rows of every table
MaxRequests == 4

\* users.id of the registered users
Users == {1, 2}
\* primary keys start at 1: 0 is the id of no row, and stands for every id that
\* names no row (the handlers treat them alike)
NoSuchId == 0
\* the values generate_invite_code returns here; households.invite_code is
\* unique, so there are never more households than codes
InviteCodes == {"AAAA1111", "BBBB2222"}
\* e-mail addresses: the address of user u is u; 0 is an address of nobody
Emails == Users \cup {0}
Quantities == {1, 2}
LocationInputs == {[name |-> "Garage", location_type |-> "custom"]}

VARIABLES
    households,        \* table households: id -> [owner_id, invite_code]
    members,           \* table household_members: set of <<household_id, user_id>>
    locations,         \* table locations: id -> [name, location_type, household_id]
    items,             \* table items: id -> [location_id, added_by_user_id, quantity]
    next_location_id,  \* primary-key sequence of locations
    next_item_id,      \* primary-key sequence of items
    creating,          \* create_household calls that committed the household row and
                       \* returned no household yet (in flight, or failed):
                       \* [household_id, owner_id, pc]; always empty under Spec
    last,              \* the response to the latest request
    nreq,              \* requests handled so far
    now,               \* time.time(), in seconds
    ai_cache,          \* main.ai_cache: cache key -> [result, time]; ghost: the
                       \* content and source type the result was parsed for
    hits,              \* storage of the rate limiter: remote address -> [count, expiry]
    model,             \* shopping_parser.model is set (GEMINI_API_KEY is configured)
    ingested,          \* what the latest ingest_shopping_list request did
    cached_at,         \* ghost: cache key -> when its result was last cached
    accepted,          \* ghost: the requests of the last minute the limiter let
                       \* pass: [user, addr, time]
    trial,             \* one call of the parser functions: its input and results
    finding            \* POST /items requests of main.py that found no location
                       \* and have not created one yet: [user, household, name,
                       \* quantity, n]

db == <<households, members, locations, items>>
\* the state of the shopping-list ingestion and of the item creation by name
ingest_vars ==
    <<now, ai_cache, hits, model, ingested, cached_at, accepted, trial, finding>>
vars == <<households, members, locations, items, next_location_id, next_item_id,
          creating, last, nreq, now, ai_cache, hits, model, ingested, cached_at, accepted,
          trial, finding>>

\* ------------------------------------------------------------- responses
\* op: the handler; status, detail: the HTTP status and detail the caller sees;
\* cause: which branch refused (the caller never sees it); id: the id of the row
\* a create handler returns, 0 otherwise; a membership change that succeeded
\* also records who asked (user) and for which household (id)
Resp(op, st, detail, cause, id, u) ==
    [op |-> op, status |-> st, detail |-> detail, cause |-> cause, id |-> id, user |-> u]

Answer(op, st, detail, cause, id) ==
    /\ last' = Resp(op, st, detail, cause, id, 0)
    /\ nreq' = nreq + 1
    /\ UNCHANGED ingest_vars

AnswerMembership(op, h, u) ==
    /\ last' = Resp(op, 200, "", "", h, u)
    /\ nreq' = nreq + 1
    /\ UNCHANGED ingest_vars

\* ------------------------------------------------------ crud.py queries
get_household_by_id(h) == IF h \in DOMAIN households THEN {h} ELSE {}

\* membership of some household or other, not of this one
is_household_member_anywhere(h, u) ==
    /\ get_household_by_id(h) # {}
    /\ \E m \in members : m[2] = u

is_household_member(h, u) ==
    /\ get_household_by_id(h) # {}
    /\ <<h, u>> \in members

get_location_by_id(l) == IF l \in DOMAIN locations THEN {l} ELSE {}

get_item_by_id(i) == IF i \in DOMAIN items THEN {i} ELSE {}

get_location_items(l) == {i \in DOMAIN items : items[i].location_id = l}

get_household_locations(h) == {l \in DOMAIN locations : locations[l].household_id = h}

get_user_by_email(e) == IF e \in Users THEN {e} ELSE {}

\* ------------------------------------------------- middleware/auth.py
Granted == [ok |-> TRUE, status |-> 200, detail |-> ""]
Denied(st, detail) == [ok |-> FALSE, status |-> st, detail |-> detail]

\* a guard that tells a stranger the location exists
verify_location_access_forbidden(l, u) ==
    IF get_location_by_id(l) = {}
    THEN Denied(404, "Location not found")
    ELSE IF ~is_household_member(locations[l].household_id, u)
         THEN Denied(403, "Access denied")
         ELSE Granted

verify_location_access(l, u) ==
    IF \/ get_location_by_id(l) = {}
       \/ ~is_household_member(locations[l].household_id, u)
    THEN Denied(404, "Location not found")
    ELSE Granted

verify_item_access(i, u) ==
    IF get_item_by_id(i) = {}
    THEN Denied(404, "Item not found")
    ELSE IF \/ get_location_by_id(items[i].location_id) = {}
            \/ ~is_household_member(locations[items[i].location_id].household_id, u)
         THEN Denied(404, "Item not found")
         ELSE Granted

\* lines 43-55: the membership is looked at before the household is
verify_household_access(h, u) ==
    IF ~is_household_member(h, u)
    THEN Denied(403, "Access denied")
    ELSE IF get_household_by_id(h) = {}
         THEN Denied(404, "Household not found")
         ELSE Granted

\* why a resolution failed; the caller never sees this
LocationCause(l, u) ==
    IF l \notin DOMAIN locations THEN "missing"
    ELSE IF <<locations[l].household_id, u>> \notin members THEN "not_member"
    ELSE ""

ItemCause(i, u) ==
    IF i \notin DOMAIN items THEN "missing" ELSE LocationCause(items[i].location_id, u)

\* ------------------------------------- crud.get_user_items, get_user_locations
\* the rows of locations JOIN households JOIN household_members
LocationRows ==
    {<<l, m>> \in (DOMAIN locations) \X members :
        locations[l].household_id \in DOMAIN households /\ m[1] = locations[l].household_id}
\* the result of a query: what it returns, and how many times
Returned(rows, ids) ==
    [x \in ids |-> Cardinality({r \in rows : r[1] = x})]
\* the same, the rows of every member being returned
get_user_locations_of_all(u) ==
    Returned(LocationRows, {r[1] : r \in LocationRows})
\* lines 285-295
get_user_locations(u) ==
    LET rows == {r \in LocationRows : r[2][2] = u}
    IN  Returned(rows, {r[1] : r \in rows})
\* lines 265-283: items JOIN locations JOIN households JOIN household_members
get_user_items(u) ==
    LET rows == {<<i, m>> \in (DOMAIN items) \X members :
                    /\ <<items[i].location_id, m>> \in LocationRows
                    /\ m[2] = u}
    IN  Returned(rows, {r[1] : r \in rows})

\* ------------------------------------------------ crud.create_household
default_locations ==
    << [name |-> "Freezer", location_type |-> "freezer"],
       [name |-> "Fridge",  location_type |-> "fridge"],
       [name |-> "Pantry",  location_type |-> "pantry"] >>

\* the household row of lines 56-61
HouseholdRow(u, code) == [owner_id |-> u, invite_code |-> code]

\* the same, without the constraint
InviteCodeTaken_never(code) == FALSE
\* the unique constraint on households.invite_code
InviteCodeTaken(code) == \E h \in DOMAIN households : households[h].invite_code = code

NewHouseholdId == Cardinality(DOMAIN households) + 1

\* the owner is never appended to the members
AddOwner_forgotten(ms, h, u) == ms

\* lines 66-69: db_household.members.append(owner)
AddOwner(ms, h, u) == ms \cup {<<h, u>>}

\* the last default location is left out
AddDefaultLocations_short(locs, first, h) ==
    locs @@ [k \in first..(first + Len(default_locations) - 2) |->
                [name |-> default_locations[k - first + 1].name,
                 location_type |-> default_locations[k - first + 1].location_type,
                 household_id |-> h]]

\* lines 71-89: one Location row per entry of default_locations
AddDefaultLocations(locs, first, h) ==
    locs @@ [k \in first..(first + Len(default_locations) - 1) |->
                [name |-> default_locations[k - first + 1].name,
                 location_type |-> default_locations[k - first + 1].location_type,
                 household_id |-> h]]

\* POST /households, handled without another request in between
create_household(u, code) ==
    /\ nreq < MaxRequests
    /\ IF InviteCodeTaken(code)
       THEN /\ Answer("create_household", 500, "IntegrityError", "invite_code", 0)
            /\ UNCHANGED <<db, next_location_id>>
       ELSE /\ households' = households @@ (NewHouseholdId :> HouseholdRow(u, code))
            /\ members' = AddOwner(members, NewHouseholdId, u)
            /\ locations' = AddDefaultLocations(locations, next_location_id, NewHouseholdId)
            /\ next_location_id' = next_location_id + Len(default_locations)
            /\ AnswerMembership("create_household", NewHouseholdId, u)
            /\ UNCHANGED items
    /\ UNCHANGED <<next_item_id, creating>>

\* -------------------------------------------------- crud.join_household
HouseholdByInviteCode(code) ==
    {h \in DOMAIN households : households[h].invite_code = code}

\* no look at the present members before the append
join_household_unchecked(u, code) ==
    /\ nreq < MaxRequests
    /\ IF HouseholdByInviteCode(code) = {}
       THEN /\ Answer("join_household", 404, "Invalid invite code", "missing", 0)
            /\ UNCHANGED members
       ELSE LET h == CHOOSE x \in HouseholdByInviteCode(code) : TRUE
            IN /\ members' = members \cup {<<h, u>>}
               /\ AnswerMembership("join_household", h, u)
    /\ UNCHANGED <<households, locations, items, next_location_id, next_item_id, creating>>

join_household(u, code) ==
    /\ nreq < MaxRequests
    /\ IF HouseholdByInviteCode(code) = {}
       THEN /\ Answer("join_household", 404, "Invalid invite code", "missing", 0)
            /\ UNCHANGED members
       ELSE LET h == CHOOSE x \in HouseholdByInviteCode(code) :
                        \A y \in HouseholdByInviteCode(code) : x <= y
            IN IF is_household_member(h, u)
               THEN /\ Answer("join_household", 400,
                              "You are already a member of this household", "member", 0)
                    /\ UNCHANGED members
               ELSE /\ members' = members \cup {<<h, u>>}
                    /\ AnswerMembership("join_household", h, u)
    /\ UNCHANGED <<households, locations, items, next_location_id, next_item_id, creating>>

\* ------------------------------------------------- crud.leave_household
\* the owner may leave like anyone else
leave_household_owner_too(u, h) ==
    /\ nreq < MaxRequests
    /\ IF get_household_by_id(h) = {}
       THEN /\ Answer("leave_household", 404, "Household not found", "missing", 0)
            /\ UNCHANGED members
       ELSE IF ~is_household_member(h, u)
       THEN /\ Answer("leave_household", 400,
                      "You are not a member of this household", "not_member", 0)
            /\ UNCHANGED members
       ELSE /\ members' = members \ {<<h, u>>}
            /\ AnswerMembership("leave_household", h, u)
    /\ UNCHANGED <<households, locations, items, next_location_id, next_item_id, creating>>

\* leaving one household removes the user from every household
leave_household_everywhere(u, h) ==
    /\ nreq < MaxRequests
    /\ IF get_household_by_id(h) = {}
       THEN /\ Answer("leave_household", 404, "Household not found", "missing", 0)
            /\ UNCHANGED members
       ELSE IF households[h].owner_id = u
       THEN /\ Answer("leave_household", 400,
                      "Household owner cannot leave household. Transfer ownership first or delete household.",
                      "owner", 0)
            /\ UNCHANGED members
       ELSE IF ~is_household_member(h, u)
       THEN /\ Answer("leave_household", 400,
                      "You are not a member of this household", "not_member", 0)
            /\ UNCHANGED members
       ELSE /\ members' = {m \in members : m[2] # u}
            /\ AnswerMembership("leave_household", h, u)
    /\ UNCHANGED <<households, locations, items, next_location_id, next_item_id, creating>>

leave_household(u, h) ==
    /\ nreq < MaxRequests
    /\ IF get_household_by_id(h) = {}
       THEN /\ Answer("leave_household", 404, "Household not found", "missing", 0)
            /\ UNCHANGED members
       ELSE IF households[h].owner_id = u
       THEN /\ Answer("leave_household", 400,
                      "Household owner cannot leave household. Transfer ownership first or delete household.",
                      "owner", 0)
            /\ UNCHANGED members
       ELSE IF ~is_household_member(h, u)
       THEN /\ Answer("leave_household", 400,
                      "You are not a member of this household", "not_member", 0)
            /\ UNCHANGED members
       ELSE /\ members' = members \ {<<h, u>>}
            /\ AnswerMembership("leave_household", h, u)
    /\ UNCHANGED <<households, locations, items, next_location_id, next_item_id, creating>>

\* --------------------------------------------- crud.invite_to_household
\* email_service.send_household_invitation builds MessageSchema(...) before its
\* try block; email_service.py neither imports nor defines MessageSchema, so
\* the call raises NameError
send_household_invitation(e) == "NameError"

\* the invitee is made a member by the invitation itself
invite_to_household_adds(u, h, e) ==
    /\ nreq < MaxRequests
    /\ IF get_household_by_id(h) = {}
       THEN /\ Answer("invite_to_household", 404, "Household not found", "missing", 0)
            /\ UNCHANGED members
       ELSE IF households[h].owner_id # u /\ ~is_household_member(h, u)
       THEN /\ Answer("invite_to_household", 403,
                      "Only household members can invite others", "inviter", 0)
            /\ UNCHANGED members
       ELSE IF \E v \in get_user_by_email(e) : is_household_member(h, v)
       THEN /\ Answer("invite_to_household", 400,
                      "User is already a member of this household", "invitee", 0)
            /\ UNCHANGED members
       ELSE /\ members' = members \cup {<<h, v>> : v \in get_user_by_email(e)}
            /\ Answer("invite_to_household", 500, "NameError", "send", 0)
    /\ UNCHANGED <<households, locations, items, next_location_id, next_item_id, creating>>

invite_to_household(u, h, e) ==
    /\ nreq < MaxRequests
    /\ IF get_household_by_id(h) = {}
       THEN Answer("invite_to_household", 404, "Household not found", "missing", 0)
       ELSE IF households[h].owner_id # u /\ ~is_household_member(h, u)
       THEN Answer("invite_to_household", 403,
                   "Only household members can invite others", "inviter", 0)
       ELSE IF \E v \in get_user_by_email(e) : is_household_member(h, v)
       THEN Answer("invite_to_household", 400,
                   "User is already a member of this household", "invitee", 0)
       ELSE IF send_household_invitation(e) = "NameError"
       THEN Answer("invite_to_household", 500, "NameError", "send", 0)
       ELSE Answer("invite_to_household", 200, "Invitation sent", "", 0)
    /\ UNCHANGED <<db, next_location_id, next_item_id, creating>>

\* ------------------------------------------------- routes/locations.py
create_location(u, h, loc) ==
    /\ nreq < MaxRequests
    /\ IF get_household_by_id(h) = {} \/ ~is_household_member(h, u)
       THEN /\ Answer("create_location", 404, "Household not found",
                      IF h \in DOMAIN households THEN "not_member" ELSE "missing", 0)
            /\ UNCHANGED <<locations, next_location_id>>
       ELSE /\ locations' = locations @@
                   (next_location_id :> [name |-> loc.name,
                                         location_type |-> loc.location_type,
                                         household_id |-> h])
            /\ next_location_id' = next_location_id + 1
            /\ Answer("create_location", 200, "", "", next_location_id)
    /\ UNCHANGED <<households, members, items, next_item_id, creating>>

list_household_locations(u, h) ==
    /\ nreq < MaxRequests
    /\ IF ~is_household_member(h, u)
       THEN Answer("get_household_locations", 404, "Household not found",
                   IF h \in DOMAIN households THEN "not_member" ELSE "missing", 0)
       ELSE Answer("get_household_locations", 200, "", "", 0)
    /\ UNCHANGED <<db, next_location_id, next_item_id, creating>>

\* crud.update_location after the guard: setattr for name and location_type
update_location(u, l, loc) ==
    /\ nreq < MaxRequests
    /\ LET v == verify_location_access(l, u)
       IN IF ~v.ok
          THEN /\ Answer("update_location", v.status, v.detail, LocationCause(l, u), 0)
               /\ UNCHANGED locations
          ELSE /\ locations' = [locations EXCEPT ![l].name = loc.name,
                                                 ![l].location_type = loc.location_type]
               /\ Answer("update_location", 200, "", "", 0)
    /\ UNCHANGED <<households, members, items, next_location_id, next_item_id, creating>>

\* the same, the location going with items in it
delete_location_unchecked(u, l) ==
    /\ nreq < MaxRequests
    /\ LET v == verify_location_access(l, u)
       IN IF ~v.ok
          THEN /\ Answer("delete_location", v.status, v.detail, LocationCause(l, u), 0)
               /\ UNCHANGED locations
          ELSE /\ locations' = [k \in DOMAIN locations \ {l} |-> locations[k]]
               /\ Answer("delete_location", 200, "", "", 0)
    /\ UNCHANGED <<households, members, items, next_location_id, next_item_id, creating>>

\* crud.delete_location after the guard: refused while the location holds items
delete_location(u, l) ==
    /\ nreq < MaxRequests
    /\ LET v == verify_location_access(l, u)
       IN IF ~v.ok
          THEN /\ Answer("delete_location", v.status, v.detail, LocationCause(l, u), 0)
               /\ UNCHANGED locations
          ELSE IF get_location_items(l) # {}
          THEN /\ Answer("delete_location", 400,
                         "Cannot delete location with items. Move items first.", "items", 0)
               /\ UNCHANGED locations
          ELSE /\ locations' = [k \in DOMAIN locations \ {l} |-> locations[k]]
               /\ Answer("delete_location", 200, "", "", 0)
    /\ UNCHANGED <<households, members, items, next_location_id, next_item_id, creating>>

\* ----------------------------------------------------- routes/items.py
create_item(u, l, q) ==
    /\ nreq < MaxRequests
    /\ LET v == verify_location_access(l, u)
       IN IF ~v.ok
          THEN /\ Answer("create_item", v.status, v.detail, LocationCause(l, u), 0)
               /\ UNCHANGED <<items, next_item_id>>
          ELSE /\ items' = items @@
                      (next_item_id :> [location_id |-> l, added_by_user_id |-> u,
                                        quantity |-> q])
               /\ next_item_id' = next_item_id + 1
               /\ Answer("create_item", 200, "", "", next_item_id)
    /\ UNCHANGED <<households, members, locations, next_location_id, creating>>

list_location_items(u, l) ==
    /\ nreq < MaxRequests
    /\ LET v == verify_location_access(l, u)
       IN IF ~v.ok
          THEN Answer("get_location_items", v.status, v.detail, LocationCause(l, u), 0)
          ELSE Answer("get_location_items", 200, "", "", 0)
    /\ UNCHANGED <<db, next_location_id, next_item_id, creating>>

get_item(u, i) ==
    /\ nreq < MaxRequests
    /\ LET v == verify_item_access(i, u)
       IN IF ~v.ok
          THEN Answer("get_item", v.status, v.detail, ItemCause(i, u), 0)
          ELSE Answer("get_item", 200, "", "", 0)
    /\ UNCHANGED <<db, next_location_id, next_item_id, creating>>

\* the write happens before the guard is consulted
update_item_unguarded(u, i, q) ==
    /\ nreq < MaxRequests
    /\ items' = IF i \in DOMAIN items THEN [items EXCEPT ![i].quantity = q] ELSE items
    /\ LET v == verify_item_access(i, u)
       IN IF ~v.ok
          THEN Answer("update_item", v.status, v.detail, ItemCause(i, u), 0)
          ELSE Answer("update_item", 200, "", "", 0)
    /\ UNCHANGED <<households, members, locations, next_location_id, next_item_id, creating>>

update_item(u, i, q) ==
    /\ nreq < MaxRequests
    /\ LET v == verify_item_access(i, u)
       IN IF ~v.ok
          THEN /\ Answer("update_item", v.status, v.detail, ItemCause(i, u), 0)
               /\ UNCHANGED items
          ELSE /\ items' = [items EXCEPT ![i].quantity = q]
               /\ Answer("update_item", 200, "", "", 0)
    /\ UNCHANGED <<households, members, locations, next_location_id, next_item_id, creating>>

delete_item(u, i) ==
    /\ nreq < MaxRequests
    /\ LET v == verify_item_access(i, u)
       IN IF ~v.ok
          THEN /\ Answer("delete_item", v.status, v.detail, ItemCause(i, u), 0)
               /\ UNCHANGED items
          ELSE /\ items' = [k \in DOMAIN items \ {i} |-> items[k]]
               /\ Answer("delete_item", 200, "", "", 0)
    /\ UNCHANGED <<households, members, locations, next_location_id, next_item_id, creating>>

\* ------------------------------- crud.create_household, commit by commit
\* lines 55-64: the household row is committed on its own
create_household_begin(u, code) ==
    /\ nreq < MaxRequests
    /\ IF InviteCodeTaken(code)
       THEN /\ Answer("create_household", 500, "IntegrityError", "invite_code", 0)
            /\ UNCHANGED <<households, creating>>
       ELSE /\ households' = households @@ (NewHouseholdId :> HouseholdRow(u, code))
            /\ creating' = creating \cup
                   {[household_id |-> NewHouseholdId, owner_id |-> u, pc |-> "add_owner"]}
            /\ nreq' = nreq + 1
            /\ UNCHANGED <<last, ingest_vars>>
    /\ UNCHANGED <<members, locations, items, next_location_id, next_item_id>>

\* lines 66-69: the membership row is committed on its own
create_household_add_owner(c) ==
    /\ c.pc = "add_owner"
    /\ members' = AddOwner(members, c.household_id, c.owner_id)
    /\ creating' = (creating \ {c}) \cup {[c EXCEPT !.pc = "add_locations"]}
    /\ UNCHANGED <<households, locations, items, next_location_id, next_item_id, last, nreq>>
    /\ UNCHANGED ingest_vars

\* lines 71-91: the three location rows are committed together, and the call returns
create_household_add_locations(c) ==
    /\ c.pc = "add_locations"
    /\ locations' = AddDefaultLocations(locations, next_location_id, c.household_id)
    /\ next_location_id' = next_location_id + Len(default_locations)
    /\ creating' = creating \ {c}
    /\ last' = Resp("create_household", 200, "", "", c.household_id, c.owner_id)
    /\ UNCHANGED <<households, members, items, next_item_id, nreq>>
    /\ UNCHANGED ingest_vars

\* the commit of line 69 or of line 89 raises (the database is locked or gone):
\* the call ends with what the earlier commits wrote
create_household_fail(c) ==
    /\ c.pc \in {"add_owner", "add_locations"}
    /\ creating' = (creating \ {c}) \cup {[c EXCEPT !.pc = "failed"]}
    /\ last' = Resp("create_household", 500, "OperationalError", c.pc, 0, 0)
    /\ UNCHANGED <<db, next_location_id, next_item_id, nreq>>
    /\ UNCHANGED ingest_vars

\* ============================================== shopping-list ingestion
\* ------------------------------------------------------------------ text
\* A text (request content, item name, raw_text) is a sequence of tokens.  A
\* token is a run of characters of one class: k = "d" digits (v their value),
\* "w" letters (t the word in lower case, c its case: "lower", "Title" or
\* "UPPER"), "s" one whitespace character, "x" n copies of another character.
\* Two digit tokens or two words never stand side by side (they would be one
\* token), and a word of the texts used here contains a food word, a unit or a
\* keyword of the tables below only as the whole word.
Tok(k, t, c, v, n) == [k |-> k, t |-> t, c |-> c, v |-> v, n |-> n]
Num(t, v) == Tok("d", t, "", v, 1)
Word(t, c) == Tok("w", t, c, 0, 1)
SP == Tok("s", " ", "", 0, 1)
NL == Tok("s", "\n", "", 0, 1)
Comma == Tok("x", ",", "", 0, 1)
Hashes(n) == Tok("x", "#", "", 0, n)

\* Optional[...]: None is the empty sequence, a value v is <<v>>
None == <<>>
Some(v) == <<v>>

RECURSIVE TextLen(_)
\* len(text), in characters
TextLen(s) == IF s = <<>> THEN 0 ELSE Len(Head(s).t) * Head(s).n + TextLen(Tail(s))

RECURSIVE LStrip(_)
LStrip(s) == IF s # <<>> /\ Head(s).k = "s" THEN LStrip(Tail(s)) ELSE s
RECURSIVE RStrip(_)
RStrip(s) ==
    IF s # <<>> /\ s[Len(s)].k = "s" THEN RStrip(SubSeq(s, 1, Len(s) - 1)) ELSE s
\* str.strip()
Strip(s) == RStrip(LStrip(s))
\* str.title(): every run of letters gets a capital followed by small letters
Title(s) == [i \in 1..Len(s) |-> IF s[i].k = "w" THEN [s[i] EXCEPT !.c = "Title"] ELSE s[i]]
\* str.lower()
Lower(s) == [i \in 1..Len(s) |-> IF s[i].k = "w" THEN [s[i] EXCEPT !.c = "lower"] ELSE s[i]]

\* ---------------------------------------------- ai_shopping_parser.py
\* confidence is kept in hundredths: 60 is 0.6
FallbackConfidence == 60
FallbackLimit == 20

ParsedItem(name, quantity, unit, category, confidence, raw_text) ==
    [name |-> name, quantity |-> quantity, unit |-> unit, category |-> category,
     confidence |-> confidence, raw_text |-> raw_text]

\* the alternatives that end the name group of both food_patterns
FoodWords == {"chicken", "beef", "pork", "fish", "salmon", "bread", "milk", "eggs",
              "cheese", "yogurt", "butter", "apples", "bananas", "carrots", "onions",
              "potatoes", "rice", "pasta", "cereal"}
\* the unit group of the second pattern, and of the first
Units2 == {"lb", "lbs", "pound", "pounds", "oz", "ounce", "ounces", "ct", "count"}
Units1 == Units2 \cup {"each"}

\* the keywords of _infer_category, each a sequence of words one blank apart
FreezerKeywords == {<<"frozen">>, <<"ice", "cream">>, <<"chicken", "breast">>,
                    <<"ground", "beef">>, <<"fish">>, <<"salmon">>, <<"shrimp">>,
                    <<"french", "fries">>, <<"pizza">>}
FridgeKeywords == {<<"milk">>, <<"yogurt">>, <<"cheese">>, <<"eggs">>, <<"butter">>,
                   <<"lettuce">>, <<"carrots">>, <<"fresh">>, <<"produce">>, <<"deli">>,
                   <<"meat">>}

\* kw in name_lower
HasKeyword(name, kw) ==
    LET low == Lower(name)
    IN  \E i \in 1..Len(low) :
            /\ i + 2 * (Len(kw) - 1) <= Len(low)
            /\ \A j \in 1..Len(kw) :
                   /\ low[i + 2 * (j - 1)].k = "w"
                   /\ low[i + 2 * (j - 1)].t = kw[j]
                   /\ low[i + 2 * (j - 1)].c = "lower"
                   /\ j > 1 => low[i + 2 * j - 3] = SP

\* the same, with the fridge keywords looked up before the freezer keywords
_infer_category_fridge_first(item_name) ==
    IF \E kw \in FridgeKeywords : HasKeyword(item_name, kw) THEN "fridge"
    ELSE IF \E kw \in FreezerKeywords : HasKeyword(item_name, kw) THEN "freezer"
    ELSE "pantry"

_infer_category(item_name) ==
    IF \E kw \in FreezerKeywords : HasKeyword(item_name, kw) THEN "freezer"
    ELSE IF \E kw \in FridgeKeywords : HasKeyword(item_name, kw) THEN "fridge"
    ELSE "pantry"

\* --- the two food_patterns, matched as re.finditer matches them (leftmost
\* match, greedy groups, the next search starting where the match ended)
IsAlphaWs(c, i) == i <= Len(c) /\ c[i].k \in {"w", "s"}
IsWs(c, i) == i <= Len(c) /\ c[i].k = "s"
IsFood(tok) == tok.k = "w" /\ tok.t \in FoodWords
RECURSIVE RunEnd(_, _)
\* the last token of the longest run of letters and whitespace from i on
\* (i - 1: there is none)
RunEnd(c, i) == IF IsAlphaWs(c, i) THEN RunEnd(c, i + 1) ELSE i - 1
RECURSIVE WsEnd(_, _)
\* the last token of the longest run of whitespace from i on
WsEnd(c, i) == IF IsWs(c, i) THEN WsEnd(c, i + 1) ELSE i - 1
RECURSIVE LastFood(_, _, _)
\* the last food word of c[i..j], 0 if there is none
LastFood(c, i, j) ==
    IF j < i THEN 0 ELSE IF IsFood(c[j]) THEN j ELSE LastFood(c, i, j - 1)
RECURSIVE LastWord(_, _, _)
LastWord(c, i, j) ==
    IF j < i THEN 0 ELSE IF c[j].k = "w" THEN j ELSE LastWord(c, i, j - 1)

NoMatch == [ok |-> FALSE]
Match(end, quantity, unit, name, raw) ==
    [ok |-> TRUE, end |-> end, quantity |-> quantity, unit |-> unit, name |-> name,
     raw |-> raw]

\* the name group (letters and whitespace, one at least, then a food word) from
\* token r, after gap whitespace characters, can end at food word lf: a character
\* has to stand before the food word, and when the food word comes first the
\* only candidates are the whitespace before it, of which the pattern needs one
NameEnds(r, lf, gap) == lf # 0 /\ ~(lf = r /\ gap = 1)
NameGroup(c, r, lf) == SubSeq(c, IF lf = r THEN r - 1 ELSE r, lf)

\* food_patterns[0] at token i: digits, whitespace, a unit or none, whitespace
\* (one at least), the name group
Match1(c, i) ==
    LET ae == WsEnd(c, i + 1)
        u == ae + 1
        be == WsEnd(c, u + 1)
        r1 == be + 1
        lf1 == LastFood(c, r1, RunEnd(c, r1))
        lf2 == LastFood(c, u, RunEnd(c, u))
    IN  IF c[i].k # "d" THEN NoMatch
        ELSE IF /\ u <= Len(c) /\ c[u].k = "w" /\ c[u].t \in Units1
                /\ be - u >= 1 /\ NameEnds(r1, lf1, be - u)
        THEN Match(lf1, c[i].v, Some(c[u]), NameGroup(c, r1, lf1), SubSeq(c, i, lf1))
        ELSE IF ae - i >= 1 /\ NameEnds(u, lf2, ae - i)
        THEN Match(lf2, c[i].v, None, NameGroup(c, u, lf2), SubSeq(c, i, lf2))
        ELSE NoMatch

\* food_patterns[1] from token s, which starts a run of letters and whitespace:
\* the name group, whitespace (one at least), digits, whitespace, a unit or none;
\* only the last word of the run can have the digits behind it
Match2(c, s) ==
    LET e == RunEnd(c, s)
        f == LastWord(c, s, e)
        d == e + 1
        ge == WsEnd(c, d + 1)
        u == ge + 1
    IN  IF ~IsAlphaWs(c, s) THEN NoMatch
        ELSE IF f = 0 \/ f = s \/ f = e THEN NoMatch
        ELSE IF ~IsFood(c[f]) \/ d > Len(c) THEN NoMatch
        ELSE IF c[d].k # "d" THEN NoMatch
        ELSE IF u <= Len(c) /\ c[u].k = "w" /\ c[u].t \in Units2
        THEN Match(u, c[d].v, Some(c[u]), SubSeq(c, s, f), SubSeq(c, s, u))
        ELSE Match(ge, c[d].v, None, SubSeq(c, s, f), SubSeq(c, s, ge))

RECURSIVE Scan1(_, _)
Scan1(c, pos) ==
    IF pos > Len(c) THEN <<>>
    ELSE LET m == Match1(c, pos)
         IN  IF m.ok THEN <<m>> \o Scan1(c, m.end + 1) ELSE Scan1(c, pos + 1)
RECURSIVE Scan2(_, _)
Scan2(c, pos) ==
    IF pos > Len(c) THEN <<>>
    ELSE LET m == Match2(c, pos)
         IN  IF m.ok THEN <<m>> \o Scan2(c, m.end + 1)
             ELSE IF IsAlphaWs(c, pos) THEN Scan2(c, RunEnd(c, pos) + 1)
             ELSE Scan2(c, pos + 1)

\* lines 160-180: both branches build the item the same way from the groups
FallbackItem(m) ==
    ParsedItem(Title(Strip(m.name)), Some(m.quantity), m.unit,
               _infer_category(Strip(m.name)), FallbackConfidence, m.raw)

_fallback_parse(content) ==
    LET ms == Scan1(content, 1) \o Scan2(content, 1)
        found == [k \in 1..Len(ms) |-> FallbackItem(ms[k])]
    IN  SubSeq(found, 1, IF Len(found) < FallbackLimit THEN Len(found) ELSE FallbackLimit)

\* --- what model.generate_content gave: kind "raise" (timeout or any error),
\* "text" (no JSON), "scalar" (JSON that is no list) or "json" (a list, items
\* its elements; valid: ParsedItem accepts the element)
Raise == [kind |-> "raise", items |-> <<>>]
NoJson == [kind |-> "text", items |-> <<>>]
Scalar == [kind |-> "scalar", items |-> <<>>]
Json(data) == [kind |-> "json", items |-> data]
ItemData(valid, item) == [valid |-> valid, item |-> item]

RECURSIVE ParseItems(_)
\* lines 129-138
ParseItems(data) ==
    IF data = <<>> THEN <<>>
    ELSE LET item == Head(data).item
         IN  (IF ~Head(data).valid THEN <<>>
              ELSE IF item.category \notin {"freezer", "fridge", "pantry"}
              THEN <<[item EXCEPT !.category = _infer_category(item.name)]>>
              ELSE <<item>>) \o ParseItems(Tail(data))

\* raised: an exception other than JSONDecodeError left the function
_parse_ai_response(response) ==
    CASE response.kind = "text" -> [raised |-> FALSE, items |-> <<>>]
      [] response.kind = "scalar" -> [raised |-> TRUE, items |-> <<>>]
      [] OTHER -> [raised |-> FALSE, items |-> ParseItems(response.items)]

\* the same, with the failure of the call answered by an empty list
parse_shopping_content_no_fallback(content, response) ==
    IF ~model THEN <<>>
    ELSE IF response.kind = "raise" THEN <<>>
    ELSE IF _parse_ai_response(response).raised THEN _fallback_parse(content)
    ELSE _parse_ai_response(response).items

parse_shopping_content(content, response) ==
    IF ~model THEN <<>>
    ELSE IF response.kind = "raise" THEN _fallback_parse(content)
    ELSE IF _parse_ai_response(response).raised THEN _fallback_parse(content)
    ELSE _parse_ai_response(response).items

Clamp(x) == IF x < 0 THEN 0 ELSE IF x > 100 THEN 100 ELSE x
\* "item.quantity and item.quantity <= 0": None and 0 are both false
ValidQuantity(q) == IF q # None /\ q[1] # 0 /\ q[1] <= 0 THEN Some(1) ELSE q

\* lines 211-212
Dropped(item) == item.name = <<>> \/ TextLen(Strip(item.name)) < 2
\* lines 215-222
Cleaned(item) ==
    [item EXCEPT !.name = Title(Strip(item.name)),
                 !.quantity = ValidQuantity(item.quantity),
                 !.confidence = Clamp(item.confidence)]

RECURSIVE validate_items(_)
validate_items(its) ==
    IF its = <<>> THEN <<>>
    ELSE (IF Dropped(Head(its)) THEN <<>> ELSE <<Cleaned(Head(its))>>)
             \o validate_items(Tail(its))

\* ------------------------------------------- inputs of the parser functions
\* tokens of a content, and items of an answer of the service
MaxTokens == 5
MaxItems == 2

Lbs == Word("lbs", "lower")
Alphabet == {Num("2", 2), SP, Comma, Lbs, Word("milk", "lower"), Word("fish", "lower"),
             Word("rice", "lower")}
WellFormed(c) ==
    \A i \in 1..(Len(c) - 1) : ~(c[i].k = c[i + 1].k /\ c[i].k \in {"d", "w"})
ShortContents ==
    {c \in UNION {[1..n -> Alphabet] : n \in 0..MaxTokens} : WellFormed(c)}

RECURSIVE Repeat(_, _)
Repeat(s, n) == IF n = 0 THEN <<>> ELSE s \o Repeat(s, n - 1)

\* "Chicken Breast 2 lbs\nWhole Milk 1 gallon"
ChickenAndMilk ==
    <<Word("chicken", "Title"), SP, Word("breast", "Title"), SP, Num("2", 2), SP, Lbs, NL,
      Word("whole", "Title"), SP, Word("milk", "Title"), SP, Num("1", 1), SP,
      Word("gallon", "lower")>>
\* "1 lb Ground Beef, 2  rice"
BeefAndRice ==
    <<Num("1", 1), SP, Word("lb", "lower"), SP, Word("ground", "Title"), SP,
      Word("beef", "Title"), Comma, SP, Num("2", 2), SP, SP, Word("rice", "lower")>>
\* "\nFrozen fish 2" one time more than the fallback parser returns items
LongList ==
    Repeat(<<NL, Word("frozen", "Title"), SP, Word("fish", "lower"), SP, Num("2", 2)>>,
           FallbackLimit + 1)
SampleContents == {ChickenAndMilk, BeefAndRice, LongList}

Raw == <<Word("raw", "lower")>>
ItemPool ==
    {ItemData(TRUE, ParsedItem(<<Word("ice", "Title"), SP, Word("cream", "lower")>>,
                               Some(2), Some(Lbs), "freezer", 80, Raw)),
     ItemData(TRUE, ParsedItem(<<>>, Some(-1), None, "freezer", 150, Raw)),
     ItemData(TRUE, ParsedItem(<<SP, Word("a", "lower"), SP>>, Some(1), None, "pantry", 50, Raw)),
     ItemData(TRUE, ParsedItem(<<SP, Word("ox", "lower")>>, Some(0), None, "pantry", -10, Raw)),
     ItemData(TRUE, ParsedItem(<<Word("fish", "UPPER")>>, Some(-1), None, "shelf", 150, Raw)),
     ItemData(TRUE, ParsedItem(<<Word("milk", "lower")>>, None, None, "fridge", 95, Raw)),
     ItemData(FALSE, ParsedItem(<<>>, None, None, "", 0, <<>>))}
ItemLists == UNION {[1..n -> ItemPool] : n \in 0..MaxItems}
\* a call that raised may have received items before it did
Failures == {[kind |-> "raise", items |-> l] : l \in ItemLists} \cup {Scalar}
Responses == {Json(l) : l \in ItemLists} \cup {NoJson} \cup Failures

NoTrial == [content |-> <<>>, response |-> NoJson, pc |-> "", called |-> "",
            parsed |-> <<>>, validated |-> <<>>]
NewTrial(c, r) == [NoTrial EXCEPT !.content = c, !.response = r, !.pc = "new"]
Trials ==
    {NewTrial(c, r) : c \in ShortContents, r \in {Raise, NoJson}}
        \cup {NewTrial(c, r) : c \in SampleContents, r \in Responses}

app_vars == <<households, members, locations, items, next_location_id, next_item_id,
              creating, last, nreq>>

\* shopping_parser.parse_shopping_content(content, source_type) is called
trial_parse ==
    /\ trial.pc = "new"
    /\ trial' = [trial EXCEPT !.pc = "parsed", !.called = "parse_shopping_content",
                     !.parsed = parse_shopping_content(trial.content, trial.response)]
    /\ UNCHANGED <<app_vars, now, ai_cache, hits, model, ingested, cached_at, accepted,
                   finding>>

\* shopping_parser._fallback_parse(content) is called, as the tests call it
trial_fallback ==
    /\ trial.pc = "new"
    /\ trial' = [trial EXCEPT !.pc = "parsed", !.called = "_fallback_parse",
                     !.parsed = _fallback_parse(trial.content)]
    /\ UNCHANGED <<app_vars, now, ai_cache, hits, model, ingested, cached_at, accepted,
                   finding>>

\* shopping_parser.validate_items(parsed_items) is called on the result
trial_validate ==
    /\ trial.pc = "parsed"
    /\ trial' = [trial EXCEPT !.pc = "validated", !.validated = validate_items(trial.parsed)]
    /\ UNCHANGED <<app_vars, now, ai_cache, hits, model, ingested, cached_at, accepted,
                   finding>>

\* --------------------------------------- main.py: ingest_shopping_list
CACHE_TTL == 300
\* @limiter.limit("5/minute")
RateLimit == 5
RateWindow == 60
MaxContent == 5000
MinContent == 10
\* the cache is cleaned when it holds more than CacheCapacity entries, of which
\* the CacheEvict oldest go: 100 and 20 in the code, scaled down together
CacheCapacity == 2
CacheEvict == 1
\* the clock stops here: an entry of the cache has expired, and a window of
\* the limiter has passed after that
MaxTime == CACHE_TTL + RateWindow

\* f"{request.content}{request.source_type}": the cache key is the MD5 of the
\* concatenation (the digest is taken to be free of collisions)
cache_key(content, source_type) == content \o source_type

\* ai_cache is a dict, kept here in insertion order: entries are added with
\* the current time, so they stand in order of their timestamps
CacheIndex(key) ==
    IF \E i \in 1..Len(ai_cache) : ai_cache[i].key = key
    THEN CHOOSE i \in 1..Len(ai_cache) : ai_cache[i].key = key
    ELSE 0
\* the same, an entry of CACHE_TTL seconds still being used
Fresh_inclusive(i) == i # 0 /\ now - ai_cache[i].time <= CACHE_TTL
\* lines 366-372: entry i is there and is younger than CACHE_TTL
Fresh(i) == i # 0 /\ now - ai_cache[i].time < CACHE_TTL
Without(s, i) == SubSeq(s, 1, i - 1) \o SubSeq(s, i + 1, Len(s))
\* the same, the newest entries going
Cleanup_newest(cache) ==
    IF Len(cache) > CacheCapacity THEN SubSeq(cache, 1, Len(cache) - CacheEvict) ELSE cache
\* lines 391-395: sorted by timestamp (a stable sort), the first CacheEvict go
Cleanup(cache) ==
    IF Len(cache) > CacheCapacity THEN SubSeq(cache, CacheEvict + 1, Len(cache)) ELSE cache

\* --- the limiter: a window per remote address opens with the first request
\* counted and lasts RateWindow seconds; RateLimit requests pass in a window
InWindow(addr) == addr \in DOMAIN hits /\ now < hits[addr].expiry
\* the same, no request being refused
RateExceeded_never(addr) == FALSE
RateExceeded(addr) == InWindow(addr) /\ hits[addr].count >= RateLimit
Hit(addr) ==
    IF InWindow(addr)
    THEN [hits EXCEPT ![addr].count = @ + 1]
    ELSE [a \in DOMAIN hits \cup {addr} |->
              IF a = addr THEN [count |-> 1, expiry |-> now + RateWindow] ELSE hits[a]]

\* crud.get_user_households: user.household_memberships
get_user_households(u) == {h \in DOMAIN households : <<h, u>> \in members}

\* lines 417-421
LocationName(category) ==
    CASE category = "freezer" -> "freezer"
      [] category = "fridge" -> "refrigerator"
      [] OTHER -> "pantry"
\* name.lower() for the location names there are
LowerName(name) ==
    CASE name = "Freezer" -> "freezer"
      [] name = "Fridge" -> "fridge"
      [] name = "Pantry" -> "pantry"
      [] name = "Refrigerator" -> "refrigerator"
      [] OTHER -> "garage"
\* Location.name.ilike(f"%{location_name}%"): none of these names is part of
\* another, so the pattern matches the equal name only
ILike(name, location_name) == LowerName(name) = location_name

\* crud.get_location_by_name: the first match, {} if there is none
get_location_by_name(h, location_name) ==
    LET found == {l \in get_household_locations(h) : ILike(locations[l].name, location_name)}
    IN  IF found = {} THEN {}
        ELSE {CHOOSE l \in found : \A m \in found : l <= m}

\* line 348
ContentTooLarge(content) == TextLen(content) > MaxContent
\* the same, refusing content of the least length too
ContentTooShort_inclusive(content) == TextLen(Strip(content)) <= MinContent
\* line 354
ContentTooShort(content) == TextLen(Strip(content)) < MinContent

\* one entry of parsing_log
LogCreated(item, id, l) ==
    [ok |-> TRUE, parsed_name |-> item.name, category |-> item.category,
     item_id |-> id, location_id |-> l, error |-> ""]
LogError(item, e) ==
    [ok |-> FALSE, parsed_name |-> item.name, category |-> item.category,
     item_id |-> 0, location_id |-> 0, error |-> e]

RECURSIVE Materialize_abort(_, _, _, _)
\* the same, the loop ending at the first item that fails
Materialize_abort(its, h, u, acc) ==
    IF its = <<>> THEN acc
    ELSE LET item == Head(its)
             loc == get_location_by_name(h, LocationName(item.category))
             l == CHOOSE x \in loc : TRUE
         IN  IF loc = {}
             THEN [acc EXCEPT !.log = Append(@, LogError(item, "TypeError"))]
             ELSE IF item.quantity = None
             THEN [acc EXCEPT !.log = Append(@, LogError(item, "ValidationError"))]
             ELSE Materialize_abort(Tail(its), h, u,
                      [items |-> acc.items @@
                                     (acc.next_item_id :>
                                          [location_id |-> l, added_by_user_id |-> u,
                                           quantity |-> item.quantity[1]]),
                       next_item_id |-> acc.next_item_id + 1,
                       log |-> Append(acc.log, LogCreated(item, acc.next_item_id, l))])

RECURSIVE Materialize(_, _, _, _)
\* lines 414-470, acc = [items, next_item_id, log].  A location that is not
\* found is to be created by crud.create_location(db, location_data), a call
\* without the household_id the function requires: it raises TypeError.
\* ItemCreate(quantity=None) raises ValidationError.  Either is caught at line
\* 463 and logged.
Materialize(its, h, u, acc) ==
    IF its = <<>> THEN acc
    ELSE LET item == Head(its)
             loc == get_location_by_name(h, LocationName(item.category))
             l == CHOOSE x \in loc : TRUE
         IN  Materialize(Tail(its), h, u,
                 IF loc = {}
                 THEN [acc EXCEPT !.log = Append(@, LogError(item, "TypeError"))]
                 ELSE IF item.quantity = None
                 THEN [acc EXCEPT !.log = Append(@, LogError(item, "ValidationError"))]
                 ELSE [items |-> acc.items @@
                                     (acc.next_item_id :>
                                          [location_id |-> l, added_by_user_id |-> u,
                                           quantity |-> item.quantity[1]]),
                       next_item_id |-> acc.next_item_id + 1,
                       log |-> Append(acc.log, LogCreated(item, acc.next_item_id, l))])

\* validate_items changes the items in place, and the cached list holds the
\* same objects: the list as it is after line 398
AfterValidation(its) ==
    [k \in 1..Len(its) |-> IF Dropped(its[k]) THEN its[k] ELSE Cleaned(its[k])]

\* what a request did.  req = [user, addr, content, source_type]; calls: calls
\* of shopping_parser.parse_shopping_content (line 382); hit: the cached result
\* was used; household: the household the items went to (0: none); validated:
\* the list validate_items returned
Ingested(req, st, cause, hit, calls, h, validated, log) ==
    [req |-> req, status |-> st, cause |-> cause, hit |-> hit, calls |-> calls,
     household |-> h, validated |-> validated, total_parsed |-> Len(validated),
     parsing_log |-> log,
     items_created |-> Cardinality({k \in 1..Len(log) : log[k].ok})]
Request(u, addr, content, source_type) ==
    [user |-> u, addr |-> addr, content |-> content, source_type |-> source_type]

\* the requests of the last RateWindow seconds that passed the limiter, with
\* this one: how many there were of each user, address and time
Accept(u, addr) ==
    LET kept == {a \in DOMAIN accepted : a.time > now - RateWindow}
        this == [user |-> u, addr |-> addr, time |-> now]
    IN  [a \in kept \cup {this} |->
             (IF a \in kept THEN accepted[a] ELSE 0) + (IF a = this THEN 1 ELSE 0)]

\* the response, and the ghost records of the request
Ingest(req, st, detail, cause, hit, calls, h, validated, log) ==
    /\ ingested' = Ingested(req, st, cause, hit, calls, h, validated, log)
    /\ last' = Resp("ingest_shopping_list", st, detail, cause, 0, 0)
    /\ nreq' = nreq + 1
    /\ cached_at' = IF calls = 1
                    THEN (cache_key(req.content, req.source_type) :> now) @@ cached_at
                    ELSE cached_at
    /\ accepted' = IF st = 429 THEN accepted ELSE Accept(req.user, req.addr)

\* POST /api/ingest-shopping by user u from remote address addr; response is
\* what the external service does if it is called
ingest_shopping_list(u, addr, content, source_type, response) ==
    /\ LET key == cache_key(content, source_type)
           i == CacheIndex(key)
           fresh == Fresh(i)
           parsed == IF fresh THEN ai_cache[i].result
                     ELSE parse_shopping_content(content, response)
           looked == IF i # 0 /\ ~fresh THEN Without(ai_cache, i) ELSE ai_cache
           entry == [key |-> key, result |-> AfterValidation(parsed), time |-> now,
                     content |-> content, source_type |-> source_type]
           validated == validate_items(parsed)
           calls == IF fresh THEN 0 ELSE 1
           hs == get_user_households(u)
           req == Request(u, addr, content, source_type)
       IN  IF RateExceeded(addr)
           THEN /\ Ingest(req, 429, "Rate limit exceeded", "limiter", FALSE, 0, NoSuchId,
                          <<>>, <<>>)
                /\ UNCHANGED <<hits, ai_cache, items, next_item_id>>
           ELSE /\ hits' = Hit(addr)
                /\ IF ContentTooLarge(content)
                   THEN /\ Ingest(req, 400, "Content too large", "too_large", FALSE, 0,
                                  NoSuchId, <<>>, <<>>)
                        /\ UNCHANGED <<ai_cache, items, next_item_id>>
                   ELSE IF ContentTooShort(content)
                   THEN /\ Ingest(req, 400, "Content too short", "too_short", FALSE, 0,
                                  NoSuchId, <<>>, <<>>)
                        /\ UNCHANGED <<ai_cache, items, next_item_id>>
                   ELSE /\ ai_cache' = IF fresh THEN ai_cache
                                       ELSE Cleanup(Append(looked, entry))
                        /\ IF validated = <<>>
                           THEN /\ Ingest(req, 500, "Shopping list parsing failed", "no_items",
                                          fresh, calls, NoSuchId, validated, <<>>)
                                /\ UNCHANGED <<items, next_item_id>>
                           ELSE IF hs = {}
                           THEN /\ Ingest(req, 500, "Shopping list parsing failed",
                                          "no_household", fresh, calls, NoSuchId,
                                          validated, <<>>)
                                /\ UNCHANGED <<items, next_item_id>>
                           ELSE \E h \in hs :
                                  LET done == Materialize(validated, h, u,
                                                  [items |-> items,
                                                   next_item_id |-> next_item_id,
                                                   log |-> <<>>])
                                  IN  /\ items' = done.items
                                      /\ next_item_id' = done.next_item_id
                                      /\ Ingest(req, 200, "", "", fresh, calls, h, validated,
                                                done.log)
    /\ UNCHANGED <<households, members, locations, next_location_id, creating, model, trial,
                   finding>>
    /\ UNCHANGED now

\* time passes
Tick(d) ==
    /\ now + d <= MaxTime
    /\ now' = now + d
    /\ UNCHANGED <<app_vars, ai_cache, hits, model, ingested, trial, cached_at, accepted,
                   finding>>

NoIngest == Ingested(Request(0, "", <<>>, <<>>), 0, "", FALSE, 0, NoSuchId, <<>>, <<>>)

\* ----------------------------------------------- item creation by name
\* the location_name values of the requests, in small letters
LocationNames == {"refrigerator", "freezer", "garage"}
\* routes/items.py CANONICAL and ALIASES
CANONICAL == {"freezer", "fridge", "pantry"}
\* normalize_location_name: the first of the pair, and the second of it for a
\* canonical name
Norm(name) == IF name = "refrigerator" THEN "fridge" ELSE name
Pretty(norm) ==
    CASE norm = "freezer" -> "Freezer"
      [] norm = "fridge" -> "Fridge"
      [] OTHER -> "Pantry"
\* str.title() of the names there are
TitleName(name) ==
    CASE name = "refrigerator" -> "Refrigerator"
      [] name = "freezer" -> "Freezer"
      [] OTHER -> "Garage"

\* the answer to a POST /items, who asked and the item created
AnswerByName(st, detail, cause, id, u) ==
    /\ last' = Resp("create_item_by_location_name", st, detail, cause, id, u)
    /\ nreq' = nreq + 1
NewItem(l, u, q) ==
    next_item_id :> [location_id |-> l, added_by_user_id |-> u, quantity |-> q]

\* routes/items.py, lines 64-102.  crud.get_user_locations is given
\* household.id where it takes the id of a user: the locations searched are
\* those of the households of the user whose id is that number
create_item_by_location_name(u, location_name, q) ==
    /\ nreq < MaxRequests
    /\ IF get_user_households(u) = {}
       THEN /\ AnswerByName(404, "No households found", "no_household", 0, u)
            /\ UNCHANGED <<locations, next_location_id, items, next_item_id>>
       ELSE IF Norm(location_name) \notin CANONICAL
       THEN /\ AnswerByName(400, "Invalid location_name", "name", 0, u)
            /\ UNCHANGED <<locations, next_location_id, items, next_item_id>>
       ELSE \E h \in get_user_households(u) :
              LET norm == Norm(location_name)
                  matches == {l \in DOMAIN get_user_locations(h) :
                                 \/ LowerName(locations[l].name) = norm
                                 \/ locations[l].location_type = norm}
              IN  /\ IF matches = {}
                     THEN /\ locations' = locations @@
                                 (next_location_id :>
                                      [name |-> Pretty(norm), location_type |-> norm,
                                       household_id |-> h])
                          /\ next_location_id' = next_location_id + 1
                          /\ items' = items @@ NewItem(next_location_id, u, q)
                     ELSE /\ \E l \in matches : items' = items @@ NewItem(l, u, q)
                          /\ UNCHANGED <<locations, next_location_id>>
                  /\ next_item_id' = next_item_id + 1
                  /\ AnswerByName(200, "", "", next_item_id, u)
    /\ UNCHANGED <<households, members, creating, ingest_vars>>

\* main.py, lines 242-269, up to the answer of crud.get_location_by_name: the
\* item is created if the location was found, else the request goes on in
\* create_item_by_location_name_create.  The handler is a def: it runs in a
\* thread of its own, beside other requests
create_item_by_location_name_find(u, location_name, q) ==
    /\ nreq + Cardinality(finding) < MaxRequests
    /\ IF get_user_households(u) = {}
       THEN /\ AnswerByName(404, "No households found", "no_household", 0, u)
            /\ UNCHANGED <<items, next_item_id, finding>>
       ELSE \E h \in get_user_households(u) :
              LET found == get_location_by_name(h, location_name)
              IN  IF found = {}
                  THEN /\ finding' = finding \cup
                              {[user |-> u, household |-> h, name |-> location_name,
                                quantity |-> q, n |-> nreq + Cardinality(finding)]}
                       /\ UNCHANGED <<items, next_item_id, last, nreq>>
                  ELSE /\ \E l \in found : items' = items @@ NewItem(l, u, q)
                       /\ next_item_id' = next_item_id + 1
                       /\ AnswerByName(200, "", "", next_item_id, u)
                       /\ UNCHANGED finding
    /\ UNCHANGED <<households, members, locations, next_location_id, creating>>
    /\ UNCHANGED <<now, ai_cache, hits, model, ingested, cached_at, accepted, trial>>

\* lines 261-269: crud.create_location and crud.create_item
create_item_by_location_name_create(c) ==
    /\ finding' = finding \ {c}
    /\ locations' = locations @@
           (next_location_id :>
                [name |-> TitleName(c.name), location_type |-> c.name,
                 household_id |-> c.household])
    /\ next_location_id' = next_location_id + 1
    /\ items' = items @@ NewItem(next_location_id, c.user, c.quantity)
    /\ next_item_id' = next_item_id + 1
    /\ AnswerByName(200, "", "", next_item_id, c.user)
    /\ UNCHANGED <<households, members, creating>>
    /\ UNCHANGED <<now, ai_cache, hits, model, ingested, cached_at, accepted, trial>>

\* ------------------------------------------------------- specification
\* the ids a request can name: every row there is, and one id of no row
HouseholdIds == DOMAIN households \cup {NoSuchId}
LocationIds == DOMAIN locations \cup {NoSuchId}
ItemIds == DOMAIN items \cup {NoSuchId}

\* the tables are empty
InitDb ==
    /\ households = <<>>
    /\ members = {}
    /\ locations = <<>>
    /\ items = <<>>
    /\ next_location_id = 1
    /\ next_item_id = 1
    /\ creating = {}
    /\ last = Resp("", 200, "", "", 0, 0)
    /\ nreq = 0

\* the cache and the storage of the rate limiter are empty
InitIngestion ==
    /\ now = 0
    /\ ai_cache = <<>>
    /\ hits = <<>>
    /\ ingested = NoIngest
    /\ cached_at = <<>>
    /\ accepted = <<>>
    /\ trial = NoTrial
    /\ finding = {}

\* the household handlers never read model
Init == InitDb /\ InitIngestion /\ model = FALSE

Requests ==
    \/ \E u \in Users, c \in InviteCodes : join_household(u, c)
    \/ \E u \in Users, h \in HouseholdIds : leave_household(u, h)
    \/ \E u \in Users, h \in HouseholdIds, e \in Emails : invite_to_household(u, h, e)
    \/ \E u \in Users, h \in HouseholdIds, loc \in LocationInputs : create_location(u, h, loc)
    \/ \E u \in Users, h \in HouseholdIds : list_household_locations(u, h)
    \/ \E u \in Users, l \in LocationIds, loc \in LocationInputs : update_location(u, l, loc)
    \/ \E u \in Users, l \in LocationIds : delete_location(u, l)
    \/ \E u \in Users, l \in LocationIds, q \in Quantities : create_item(u, l, q)
    \/ \E u \in Users, l \in LocationIds : list_location_items(u, l)
    \/ \E u \in Users, i \in ItemIds : get_item(u, i)
    \/ \E u \in Users, i \in ItemIds, q \in Quantities : update_item(u, i, q)
    \/ \E u \in Users, i \in ItemIds : delete_item(u, i)

\* one request is handled at a time, each handler running to completion
Next ==
    \/ \E u \in Users, c \in InviteCodes : create_household(u, c)
    \/ Requests

Spec == Init /\ [][Next]_vars

\* requests run in threads: another handler may run between two commits of
\* create_household, and a commit may fail
NextCommit ==
    \/ \E u \in Users, c \in InviteCodes : create_household_begin(u, c)
    \/ \E c \in creating : create_household_add_owner(c)
    \/ \E c \in creating : create_household_add_locations(c)
    \/ \E c \in creating : create_household_fail(c)
    \/ Requests

SpecCommit == Init /\ [][NextCommit]_vars

\* the parser functions, each called on every input of Trials, with and without
\* a configured service
InitParse ==
    /\ InitDb
    /\ now = 0 /\ ai_cache = <<>> /\ hits = <<>> /\ ingested = NoIngest
    /\ cached_at = <<>> /\ accepted = <<>> /\ finding = {}
    /\ model \in BOOLEAN
    /\ trial \in Trials

NextParse == trial_parse \/ trial_fallback \/ trial_validate

SpecParse == InitParse /\ [][NextParse]_vars

\* items are created by location name through the handler of routes/items.py
NextItems ==
    \/ \E u \in Users, c \in InviteCodes : create_household(u, c)
    \/ \E u \in Users, c \in InviteCodes : join_household(u, c)
    \/ \E u \in Users, name \in LocationNames, q \in {1} :
           create_item_by_location_name(u, name, q)

SpecItems == Init /\ [][NextItems]_vars

\* items are created by location name through the handler of main.py, the
\* requests running beside one another
NextFind ==
    \/ \E u \in Users, c \in InviteCodes : create_household(u, c)
    \/ \E u \in Users, c \in InviteCodes : join_household(u, c)
    \/ \E u \in Users, name \in LocationNames, q \in {1} :
           create_item_by_location_name_find(u, name, q)
    \/ \E c \in finding : create_item_by_location_name_create(c)

SpecFind == Init /\ [][NextFind]_vars

\* --- shopping lists are ingested
Addrs == {"10.0.0.1", "10.0.0.2"}
Generic == <<Word("generic", "lower")>>
Hannaford == <<Word("hannaford", "lower")>>
\* "2 lbs fish": MinContent characters
TenChars == <<Num("2", 2), SP, Lbs, SP, Word("fish", "lower")>>
\* "2 lb fish"
NineChars == <<Num("2", 2), SP, Word("lb", "lower"), SP, Word("fish", "lower")>>
\* " 2  milk  ": MinContent characters, blanks at both ends
PaddedTen == <<SP, Num("2", 2), SP, SP, Word("milk", "lower"), SP, SP>>
\* MaxContent characters, and one more
FiveThousand == <<Hashes(MaxContent - MinContent)>> \o TenChars
TooLong == <<Hashes(MaxContent - MinContent + 1)>> \o TenChars
\* "2 lbs  milk, 2  fish": an item for the fridge and one for the freezer
MilkAndFish ==
    <<Num("2", 2), SP, Lbs, SP, SP, Word("milk", "lower"), Comma, SP, Num("2", 2), SP, SP,
      Word("fish", "lower")>>
IngestContents == {TenChars, NineChars, PaddedTen, FiveThousand, TooLong, MilkAndFish}
\* the service answers with an item for the freezer, an item for the pantry
\* without a quantity, and an item of an unknown category
ThreeItems ==
    Json(<<ItemData(TRUE, ParsedItem(<<Word("ice", "Title"), SP, Word("cream", "lower")>>,
                                     Some(2), Some(Lbs), "freezer", 80, Raw)),
           ItemData(TRUE, ParsedItem(<<Word("rice", "lower")>>, None, None, "pantry", 95,
                                     Raw)),
           ItemData(TRUE, ParsedItem(<<Word("fish", "UPPER")>>, Some(-1), None, "shelf",
                                     150, Raw))>>)
IngestResponses == {Raise, NoJson, ThreeItems}

\* requests handled in one behaviour of SpecIngest
IngestRequests == 3

InitIngest == InitDb /\ InitIngestion /\ model \in BOOLEAN

\* households are created and their locations renamed; lists are ingested by
\* their members and by others
NextIngest ==
    \/ \E u \in Users, c \in InviteCodes : nreq < IngestRequests /\ create_household(u, c)
    \/ \E u \in Users, l \in LocationIds, loc \in LocationInputs :
           nreq < IngestRequests /\ update_location(u, l, loc)
    \/ \E u \in Users, content \in IngestContents, response \in IngestResponses :
           /\ nreq < IngestRequests
           /\ ingest_shopping_list(u, "10.0.0.1", content, Generic, response)

SpecIngest == InitIngest /\ [][NextIngest]_vars

\* one user sends lists again and again while time passes
CacheRequests == RateLimit
NextCache ==
    \/ Tick(CACHE_TTL \div 2)
    \/ \E content \in {TenChars, MilkAndFish}, source_type \in {Generic, Hannaford} :
           /\ nreq < CacheRequests
           /\ ingest_shopping_list(1, "10.0.0.1", content, source_type, Raise)

SpecCache == InitIngest /\ [][NextCache]_vars

\* the users send lists from two addresses, more than the limiter lets pass
RateRequests == RateLimit + 2
NextRate ==
    \/ now < RateWindow /\ Tick(RateWindow \div 2)
    \/ nreq = 0 /\ create_household(1, "AAAA1111")
    \/ \E u \in Users, addr \in Addrs :
           /\ nreq < RateRequests
           /\ u = 1 \/ addr = "10.0.0.1"
           /\ ingest_shopping_list(u, addr, TenChars, Generic, Raise)

SpecRate == InitIngest /\ [][NextRate]_vars

\* lists whose content and source type differ and read the same when the
\* one is written after the other: "2 lbs fish " with "generic", and
\* "2 lbs fish generic" with ""
KeyPairs ==
    {<<TenChars \o <<SP>>, Generic>>, <<TenChars \o <<SP>> \o Generic, <<>>>>,
     <<TenChars, Hannaford>>}
NextKey ==
    \/ Tick(CACHE_TTL \div 2)
    \/ nreq = 0 /\ create_household(1, "AAAA1111")
    \/ \E u \in Users, pair \in KeyPairs :
           /\ nreq < CacheRequests
           /\ ingest_shopping_list(u, "10.0.0.1", pair[1], pair[2], Raise)

SpecKey == InitIngest /\ [][NextKey]_vars

\* ================================================================ claims
HouseholdOfLocation(l) == locations[l].household_id
HouseholdOfItem(i) == locations[items[i].location_id].household_id
LocationOps == {"update_location", "delete_location", "create_item", "get_location_items"}
ItemOps == {"get_item", "update_item", "delete_item"}

\* C1: for a user who is not a member of the household, resolving any location or
\* item of that household fails with 404 and with the very status and detail
\* the same call gives for an id of no row; and every handler that resolves a
\* location or an item answers a refusal of either cause with that one pair.
C1_NoExistenceLeak ==
    /\ \A u \in Users :
         /\ \A l \in DOMAIN locations :
               <<HouseholdOfLocation(l), u>> \notin members =>
                  /\ verify_location_access(l, u).status = 404
                  /\ verify_location_access(l, u) = verify_location_access(NoSuchId, u)
         /\ \A i \in DOMAIN items :
               <<HouseholdOfItem(i), u>> \notin members =>
                  /\ verify_item_access(i, u).status = 404
                  /\ verify_item_access(i, u) = verify_item_access(NoSuchId, u)
    /\ (last.op \in LocationOps /\ last.cause \in {"missing", "not_member"}) =>
          (last.status = 404 /\ last.detail = "Location not found")
    /\ (last.op \in ItemOps /\ last.cause \in {"missing", "not_member"}) =>
          (last.status = 404 /\ last.detail = "Item not found")

\* a stranger asked for an item that exists and was refused
C1_Witness ==
    /\ last.op = "get_item"
    /\ last.cause = "not_member"
    /\ last.status = 404
    /\ items # <<>>

GuardedOps == {"update_location", "delete_location", "create_item", "update_item", "delete_item"}

\* C2: a guarded handler whose location/item resolution fails writes nothing:
\* households, memberships, locations and items are as they were.
C2_FailClosed ==
    [][ (last'.op \in GuardedOps /\ last'.cause \in {"missing", "not_member"})
          => (last'.status = 404 /\ UNCHANGED <<db, next_location_id, next_item_id>>) ]_vars

\* a stranger's update of an item that exists was refused
C2_Witness ==
    /\ last.op = "update_item"
    /\ last.cause = "not_member"
    /\ items # <<>>

DefaultNames == {<<default_locations[k].name, default_locations[k].location_type>> :
                    k \in 1..Len(default_locations)}

NamesOf(locs, h) ==
    {<<locs[l].name, locs[l].location_type>> : l \in {x \in DOMAIN locs : locs[x].household_id = h}}

\* C4: a household row is never visible, while its create_household call has not
\* returned it (in flight or failed), without its owner's membership and its
\* three default locations.
C4_CreateHouseholdAtomic ==
    \A c \in creating :
        c.household_id \in DOMAIN households =>
           /\ <<c.household_id, c.owner_id>> \in members
           /\ DefaultNames \subseteq NamesOf(locations, c.household_id)

\* C5: when create_household returns household H, H has exactly three
\* locations, Freezer/freezer, Fridge/fridge and Pantry/pantry, every location
\* there was before is unchanged, and every new location is H's.
C5_DefaultLocations ==
    [][ (last'.op = "create_household" /\ last'.status = 200) =>
          LET h == last'.id
              mine == {l \in DOMAIN locations' : locations'[l].household_id = h}
          IN /\ h \notin DOMAIN households
             /\ Cardinality(mine) = 3
             /\ {<<locations'[l].name, locations'[l].location_type>> : l \in mine} =
                   {<<"Freezer", "freezer">>, <<"Fridge", "fridge">>, <<"Pantry", "pantry">>}
             /\ \A l \in DOMAIN locations :
                   l \in DOMAIN locations' /\ locations'[l] = locations[l]
             /\ DOMAIN locations' \ DOMAIN locations = mine ]_vars

\* a second household was created while the first had its locations
C5_Witness ==
    /\ last.op = "create_household"
    /\ last.status = 200
    /\ last.id = 2
    /\ get_household_locations(1) # {}
    /\ Cardinality(get_household_locations(2)) = 3

\* C6: join_household(code, U) answers 404 when no household has the code and
\* 400 (already a member) when U is a member of the household that has it, and
\* leaves the memberships as they were in both cases; otherwise it adds the pair
\* (that household, U) and nothing else.  So a second redemption of a code by
\* the same user is refused and adds no member.
C6_JoinHousehold ==
    [][ \A u \in Users, code \in InviteCodes :
          join_household(u, code) =>
             LET hs == {h \in DOMAIN households : households[h].invite_code = code}
             IN IF hs = {}
                THEN last'.status = 404 /\ members' = members
                ELSE \E h \in hs :
                       /\ hs = {h}
                       /\ IF <<h, u>> \in members
                          THEN last'.status = 400 /\ members' = members
                          ELSE /\ last'.status = 200
                               /\ members' = members \cup {<<h, u>>}
                               /\ members' # members ]_vars

\* a member redeemed the code of the household again and was refused
C6_Witness ==
    /\ last.op = "join_household"
    /\ last.status = 400
    /\ last.cause = "member"

\* C7: leave_household(H, U) by the owner U of H answers 400 and leaves every
\* membership as it was.
C7_OwnerCannotLeave ==
    [][ \A u \in Users, h \in DOMAIN households :
          (leave_household(u, h) /\ households[h].owner_id = u) =>
             (last'.status = 400 /\ members' = members /\ <<h, u>> \in members') ]_vars

\* the owner of a household with another member asked to leave
C7_Witness ==
    /\ last.op = "leave_household"
    /\ last.status = 400
    /\ last.cause = "owner"
    /\ \E h \in DOMAIN households : Cardinality({m \in members : m[1] = h}) = 2

\* C8: leave_household(H, U) by a user U who does not own H answers 400 and
\* changes nothing when U is not a member of H; when U is a member it removes
\* the membership (H, U) and nothing else: every other membership, the
\* households with their owners, the locations and the items are as before.
C8_LeaveHousehold ==
    [][ \A u \in Users, h \in DOMAIN households :
          (leave_household(u, h) /\ households[h].owner_id # u) =>
             IF <<h, u>> \notin members
             THEN last'.status = 400 /\ UNCHANGED db
             ELSE /\ last'.status = 200
                  /\ members' = members \ {<<h, u>>}
                  /\ UNCHANGED <<households, locations, items>> ]_vars

\* a member who had added an item to the household has left it; the item and
\* the owner's membership are there still
C8_Witness ==
    /\ last.op = "leave_household"
    /\ last.status = 200
    /\ \E i \in DOMAIN items :
          items[i].added_by_user_id = last.user /\ HouseholdOfItem(i) = last.id
    /\ <<last.id, households[last.id].owner_id>> \in members

MembershipOps == {"create_household", "join_household", "leave_household"}

\* C9: invite_to_household(H, email, inviter) answers 403 when the inviter is
\* neither the owner nor a member of H; when the inviter is one of them and the
\* email is that of a member of H it answers 400; whatever it answers, the
\* memberships are as they were.  Memberships change only in create_household,
\* join_household and leave_household.
C9_InviteChangesNoMembership ==
    [][ /\ \A u \in Users, h \in DOMAIN households, e \in Emails :
             invite_to_household(u, h, e) =>
                LET allowed == households[h].owner_id = u \/ <<h, u>> \in members
                IN /\ ~allowed => last'.status = 403
                   /\ (allowed /\ e \in Users /\ <<h, e>> \in members) => last'.status = 400
                   /\ members' = members
        /\ members' # members => last'.op \in MembershipOps ]_vars

\* a member invited an address that is no member's, in a household that has
\* two members
C9_Witness ==
    /\ last.op = "invite_to_household"
    /\ last.cause = "send"
    /\ \E h \in DOMAIN households : Cardinality({m \in members : m[1] = h}) = 2

ItemsOfHousehold(h) ==
    {i \in DOMAIN items : items[i].location_id \in DOMAIN locations /\ HouseholdOfItem(i) = h}

\* every check of u on h and on the locations and items of h succeeds
AllGranted(u, h) ==
    /\ is_household_member(h, u)
    /\ \A l \in get_household_locations(h) : verify_location_access(l, u).ok
    /\ \A i \in ItemsOfHousehold(h) : verify_item_access(i, u).ok

\* every check of u on h and on the locations and items of h fails
AllDenied(u, h) ==
    /\ ~is_household_member(h, u)
    /\ \A l \in get_household_locations(h) : ~verify_location_access(l, u).ok
    /\ \A i \in ItemsOfHousehold(h) : ~verify_item_access(i, u).ok

\* C10: the request in which u leaves h ends with every check of u on h failing,
\* and they keep failing through every later request until one in which u joins
\* h; the request in which u joins (or creates) h ends with every check
\* succeeding, and they keep succeeding until one in which u leaves h.
C10_NoStaleMembership ==
    [][ \A u \in Users, h \in DOMAIN households' :
          LET joins  == /\ last'.op \in {"create_household", "join_household"}
                        /\ last'.status = 200 /\ last'.user = u /\ last'.id = h
              leaves == /\ last'.op = "leave_household"
                        /\ last'.status = 200 /\ last'.user = u /\ last'.id = h
              granted == AllGranted(u, h)'
              denied == AllDenied(u, h)'
          IN /\ joins  => granted
             /\ leaves => denied
             /\ (~joins /\ ~denied) => ~AllDenied(u, h)
             /\ (~leaves /\ ~granted) => ~AllGranted(u, h) ]_vars

\* a user has left a household other than the one they own, and every check of
\* theirs on its locations fails
C10_Witness ==
    /\ last.op = "leave_household"
    /\ last.status = 200
    /\ get_household_locations(last.id) # {}
    /\ AllDenied(last.user, last.id)
    /\ \E h \in DOMAIN households : h # last.id /\ AllGranted(last.user, h)

\* C12: when the service is configured and the call to it raises,
\* parse_shopping_content returns the items of the rule-based fallback parser on
\* the same content and nothing else, whatever the failed call had received.
C12_FallbackOnFailure ==
    (/\ trial.called = "parse_shopping_content"
     /\ model
     /\ trial.response.kind = "raise")
        => trial.parsed = _fallback_parse(trial.content)

\* the call raised after it had received items, and the fallback parser found
\* items in the content
C12_Witness ==
    /\ trial.called = "parse_shopping_content"
    /\ model
    /\ trial.response.kind = "raise"
    /\ trial.response.items # <<>>
    /\ trial.parsed # <<>>
    /\ \A i \in 1..Len(trial.parsed) : trial.parsed[i].confidence = FallbackConfidence

\* C13: when the service is not configured, or its answer is no JSON, the items
\* that go on to validation are those of the fallback parser on the same content.
C13_FallbackWhenUnavailable ==
    (/\ trial.called = "parse_shopping_content"
     /\ ~model \/ trial.response.kind = "text")
        => trial.parsed = _fallback_parse(trial.content)

\* the category the keyword table gives a name
KeywordCategory(name) ==
    IF \E kw \in FreezerKeywords : HasKeyword(name, kw) THEN "freezer"
    ELSE IF \E kw \in FridgeKeywords : HasKeyword(name, kw) THEN "fridge"
    ELSE "pantry"

\* C14: the fallback parser returns, for every content and whether the service
\* is configured or not, what the content alone determines: at most 20 items,
\* each with confidence 0.6 and with the category of the keyword table for its
\* name (freezer keywords first, then fridge keywords, else pantry).
C14_FallbackParser ==
    (trial.called = "_fallback_parse" \/ (trial.called # "" /\ model /\ trial.response.kind = "raise"))
        => /\ Len(trial.parsed) <= FallbackLimit
           /\ trial.parsed = _fallback_parse(trial.content)
           /\ \A i \in 1..Len(trial.parsed) :
                  /\ trial.parsed[i].confidence = FallbackConfidence
                  /\ trial.parsed[i].category = KeywordCategory(trial.parsed[i].name)

\* a content with more matches than the limit gave exactly 20 items, all of them
\* freezer items by the keyword "frozen", with no service configured
C14_Witness ==
    /\ trial.called = "_fallback_parse"
    /\ ~model
    /\ Len(Scan1(trial.content, 1)) + Len(Scan2(trial.content, 1)) > FallbackLimit
    /\ Len(trial.parsed) = FallbackLimit
    /\ \A i \in 1..Len(trial.parsed) : trial.parsed[i].category = "freezer"

\* what the claim says validate_items returns for one kept item
Validated(item) ==
    [item EXCEPT !.name = Title(Strip(item.name)),
                 !.confidence = IF @ < 0 THEN 0 ELSE IF @ > 100 THEN 100 ELSE @,
                 !.quantity = IF @ # None /\ @[1] <= 0 THEN Some(1) ELSE @]
NameKept(item) == TextLen(Strip(item.name)) >= 2

\* C15: validate_items drops exactly the items whose stripped name has fewer than
\* 2 characters, keeps the others in order, and returns each with its name
\* stripped and title-cased, its confidence clamped into [0,1] and its quantity
\* set to 1 when it was zero or negative, unchanged otherwise.
C15_ValidateItems ==
    trial.pc = "validated" =>
        LET kept == SelectSeq(trial.parsed, NameKept)
        IN  /\ Len(trial.validated) = Len(kept)
            /\ \A i \in 1..Len(kept) : trial.validated[i] = Validated(kept[i])

\* ------------------------------------------------ the ingestion cache
\* a step that handles a POST /api/ingest-shopping
IngestStep == nreq' = nreq + 1 /\ last'.op = "ingest_shopping_list"
\* the request got as far as the cache
ReachedCache(r) == r.cause \notin {"limiter", "too_large", "too_short"}
KeyOf(r) == cache_key(r.req.content, r.req.source_type)
CachedAt(cache, key, t) ==
    Cardinality({i \in 1..Len(cache) : cache[i].key = key}) = 1
    /\ \E i \in 1..Len(cache) : cache[i].key = key /\ cache[i].time = t

\* C11 as stated: a request whose content and source type were cached less
\* than CACHE_TTL seconds ago makes no call of the parser; the first request
\* after the result is CACHE_TTL seconds old makes exactly one call and caches
\* the result with the new timestamp
C11_CachedWithinTTL ==
    [][IngestStep /\ ReachedCache(ingested') /\ KeyOf(ingested') \in DOMAIN cached_at
       => LET key == KeyOf(ingested')
          IN  IF now - cached_at[key] < CACHE_TTL
              THEN ingested'.calls = 0
              ELSE ingested'.calls = 1 /\ CachedAt(ai_cache', key, now)]_vars

\* C11, amended: while the cache still holds the entry, a request within
\* CACHE_TTL seconds makes no call and leaves the cache as it is, and a request
\* after that makes exactly one call and stores the result with the new
\* timestamp; a request whose entry the cache does not hold, be it that the
\* cleanup deleted it, makes one call
C11_CachedWhileHeld ==
    [][IngestStep /\ ReachedCache(ingested')
       => LET key == KeyOf(ingested')
              i == CacheIndex(key)
          IN  IF i # 0 /\ now - ai_cache[i].time < CACHE_TTL
              THEN ingested'.calls = 0 /\ ingested'.hit /\ ai_cache' = ai_cache
              ELSE ingested'.calls = 1 /\ ~ingested'.hit
                   /\ CachedAt(ai_cache', key, now)]_vars
\* a result cached half of CACHE_TTL ago has been used, and a list cached
\* CACHE_TTL ago has been parsed again
C11_Witness ==
    /\ last.op = "ingest_shopping_list" /\ ingested.hit /\ ingested.calls = 0
    /\ now = CACHE_TTL
    /\ \E i \in 1..Len(ai_cache) : ai_cache[i].time = now /\ ai_cache[i].key # KeyOf(ingested)
    /\ Cardinality(DOMAIN cached_at) = 2
\* ------------------------------------------------------ materialization
Categories == {"freezer", "fridge", "pantry"}
\* household h has the three locations create_household gave it
HasDefaultLocations(h) ==
    \A d \in {<<"Freezer", "freezer">>, <<"Fridge", "fridge">>, <<"Pantry", "pantry">>} :
        \E l \in get_household_locations(h) :
            locations[l].name = d[1] /\ locations[l].location_type = d[2]

\* C16: every validated item of a successful request is created, in a
\* household of the caller, in the location that stands for its category, a
\* location found there or created there; in a household with the three
\* default locations that is the default location of the category and no
\* location is created
C16_CanonicalLocation ==
    [][IngestStep /\ ingested'.status = 200
       => LET h == ingested'.household
              log == ingested'.parsing_log
          IN  /\ h \in get_user_households(ingested'.req.user)
              /\ \A k \in 1..Len(log) :
                     /\ log[k].ok
                     /\ log[k].category \in Categories
                     /\ locations'[log[k].location_id].household_id = h
                     /\ HasDefaultLocations(h)
                        => locations'[log[k].location_id].location_type = log[k].category
              /\ HasDefaultLocations(h) => locations' = locations]_vars
\* item k of the validated list can be created in household h: its location
\* is found and its quantity is a number
Creatable(item, h) ==
    get_location_by_name(h, LocationName(item.category)) # {} /\ item.quantity # None
Errors(log) == {k \in 1..Len(log) : ~log[k].ok /\ log[k].error # ""}

NothingDone ==
    /\ ingested'.calls = 0 /\ ~ingested'.hit
    /\ UNCHANGED <<ai_cache, cached_at, db, next_location_id, next_item_id>>

\* C18 as stated: content of more than MaxContent or of less than MinContent
\* characters is refused with 400 and nothing else is done; any other content,
\* that of exactly MinContent and of exactly MaxContent characters too, passes
C18_LengthLimits ==
    [][IngestStep /\ ingested'.cause # "limiter"
       => LET c == ingested'.req.content
          IN  IF TextLen(c) > MaxContent \/ TextLen(c) < MinContent
              THEN ingested'.status = 400 /\ last'.status = 400 /\ NothingDone
              ELSE ingested'.cause \notin {"too_large", "too_short"}]_vars

\* C18, amended: the lower limit is on the content without the white space
\* at its ends, the upper limit on the content as it is
C18_StrippedLengthLimits ==
    [][IngestStep /\ ingested'.cause # "limiter"
       => LET c == ingested'.req.content
          IN  IF TextLen(c) > MaxContent \/ TextLen(Strip(c)) < MinContent
              THEN ingested'.status = 400 /\ last'.status = 400 /\ NothingDone
              ELSE ingested'.cause \notin {"too_large", "too_short"}]_vars
\* content of MaxContent characters has been parsed and its item created
C18_Witness ==
    /\ last.op = "ingest_shopping_list" /\ ingested.status = 200
    /\ TextLen(ingested.req.content) = MaxContent
    /\ ingested.calls = 1 /\ ingested.items_created = 1
\* ----------------------------------------------------------- rate limit
RECURSIVE Passed(_, _)
\* how many of the requests S passed the limiter, acc being the ghost count
Passed(acc, S) ==
    IF S = {} THEN 0
    ELSE LET a == CHOOSE x \in S : TRUE IN acc[a] + Passed(acc, S \ {a})
\* the requests of user u that passed within the last RateWindow seconds
PassedOfUser(u) ==
    Passed(accepted, {a \in DOMAIN accepted : a.user = u /\ a.time > now - RateWindow})
\* the requests from addr that passed in the window the limiter has open
PassedInWindow(acc, h, t, addr) ==
    IF addr \in DOMAIN h /\ t < h[addr].expiry
    THEN Passed(acc, {a \in DOMAIN acc :
                         a.addr = addr /\ a.time >= h[addr].expiry - RateWindow})
    ELSE 0

C20_InvitationSucceeds ==
    [][\A u \in Users, h \in DOMAIN households, e \in Emails :
           /\ invite_to_household(u, h, e)
           /\ households[h].owner_id = u \/ is_household_member(h, u)
           /\ \A v \in get_user_by_email(e) : ~is_household_member(h, v)
           => last'.status = 200]_vars
\* ---------------------------------------------------------- invite codes
\* C21: no two households have the same invite code, so the households a
\* code leads join_household to are one at most
C21_UniqueInviteCodes ==
    /\ \A g, h \in DOMAIN households :
           households[g].invite_code = households[h].invite_code => g = h
    /\ \A code \in InviteCodes : Cardinality(HouseholdByInviteCode(code)) <= 1
\* two households exist, and a user has joined one of them by its code
C21_Witness ==
    /\ Cardinality(DOMAIN households) = 2
    /\ last.op = "join_household" /\ last.status = 200
    /\ <<last.id, last.user>> \in members
\* ------------------------------------------------- references of the rows
\* C22: after every operation each item is in a location there is and each
\* location in a household there is; delete_location of a location that holds
\* items deletes nothing, and is answered with 400 to who may see the location
C22_ReferentialIntegrity ==
    [][/\ \A i \in DOMAIN items' : items'[i].location_id \in DOMAIN locations'
       /\ \A l \in DOMAIN locations' : locations'[l].household_id \in DOMAIN households'
       /\ \A u \in Users, l \in DOMAIN locations :
              delete_location(u, l) /\ get_location_items(l) # {}
              => /\ UNCHANGED db
                 /\ verify_location_access(l, u).ok => last'.status = 400]_vars
\* a member was refused the deletion of a location that holds an item
C22_Witness ==
    /\ last.op = "delete_location" /\ last.status = 400 /\ last.cause = "items"
    /\ \E i \in DOMAIN items : items[i].location_id \in DOMAIN locations
\* ------------------------------------------------------ collision of codes
\* C23: create_household succeeds though the code it generated is that of a
\* household there is, as long as a code is left that no household has: the
\* new household has a code of its own
C23_RetryOnCollision ==
    [][\A u \in Users, code \in InviteCodes :
           /\ create_household(u, code)
           /\ InviteCodeTaken(code)
           /\ \E fresh \in InviteCodes : ~InviteCodeTaken(fresh)
           => /\ last'.status = 200
              /\ DOMAIN households' # DOMAIN households
              /\ C21_UniqueInviteCodes']_vars
\* ------------------------------------------------------ size of the cache
KeysOf(cache) == {cache[i].key : i \in 1..Len(cache)}
TimeIn(cache, key) == cache[CHOOSE i \in 1..Len(cache) : cache[i].key = key].time

C26_HouseholdAccess ==
    \A h \in HouseholdIds, u \in Users :
        LET v == verify_household_access(h, u)
        IN  /\ h \notin DOMAIN households => v.status = 404
            /\ v.status = 403 => h \in DOMAIN households /\ <<h, u>> \notin members
            /\ v.ok <=> h \in DOMAIN households /\ <<h, u>> \in members

\* ---------------------------------------------- statuses of the ingestion
\* C28: a request whose parse gave no valid item is answered with 400 and a
\* request of a user without household with 404, and neither creates a
\* location or an item
C28_StatusesUnchanged ==
    [][IngestStep
       => /\ ingested'.cause = "no_items" => last'.status = 400
          /\ ingested'.cause = "no_household" => last'.status = 404
          /\ ingested'.cause \in {"no_items", "no_household"}
             => UNCHANGED <<db, next_location_id, next_item_id>>]_vars
\* ------------------------------------------------------ keys of the cache
\* C27: the result a cache hit uses was parsed for the content and the source
\* type of the request
C27_CacheEntryPerPair ==
    [][IngestStep /\ ingested'.hit
       => LET hit == ai_cache[CacheIndex(KeyOf(ingested'))]
          IN  /\ hit.content = ingested'.req.content
              /\ hit.source_type = ingested'.req.source_type]_vars
\* ------------------------------------------------------ listing queries
\* C29: get_user_items and get_user_locations return, once each, the items
\* and the locations the guards grant the user, and no other
C29_ListingsAgreeWithGuard ==
    \A u \in Users :
        /\ DOMAIN get_user_items(u) = {i \in DOMAIN items : verify_item_access(i, u).ok}
        /\ DOMAIN get_user_locations(u)
               = {l \in DOMAIN locations : verify_location_access(l, u).ok}
        /\ \A i \in DOMAIN get_user_items(u) : get_user_items(u)[i] = 1
        /\ \A l \in DOMAIN get_user_locations(u) : get_user_locations(u)[l] = 1
\* a household of two members holds an item, which the listing returns to
\* a member
C29_Witness ==
    \E h \in DOMAIN households, u \in Users :
        /\ Cardinality({m \in members : m[1] = h}) = 2
        /\ \E i \in DOMAIN items : HouseholdOfItem(i) = h
        /\ <<h, u>> \in members
        /\ get_user_items(u) # <<>>
        /\ last.op = "create_item" /\ last.status = 200
\* ------------------------------------------------ item creation by name
\* C25: the item create_item_by_location_name of routes/items.py creates is
\* in a location of a household the caller is a member of
C25_OwnHouseholdOnly ==
    last.op = "create_item_by_location_name" /\ last.status = 200
    => <<HouseholdOfItem(last.id), last.user>> \in members

\* C30: whatever the order in which the steps of concurrent requests are
\* taken, no household has two locations of the same name and type
C30_OneLocationPerName ==
    \A k, l \in DOMAIN locations :
        /\ locations[k].household_id = locations[l].household_id
        /\ locations[k].name = locations[l].name
        /\ locations[k].location_type = locations[l].location_type
        => k = l
====
